---- MODULE Spec2Model ----
(***************************************************************************)
(* Overlay layout engine of the video text overlay tool (src/app.py):      *)
(* placement resolution, slide-in position functions, the layer clamp,     *)
(* the segment layer builder, font resolution and process_video_clip.      *)
(*                                                                         *)
(* Numbers.  Pixel coordinates handed to the engine are Python ints.       *)
(* Position functions return Python floats; the model computes them as     *)
(* exact rationals, a position being [xn, yn, den] for the point           *)
(* (xn/den, yn/den) with den > 0.  Times are counted in ticks of 1/100 s,  *)
(* a sampled time being the rational tn/td ticks.                          *)
(***************************************************************************)
EXTENDS Integers, Sequences, FiniteSets, TLC

VARIABLES
    placement,   \* arguments of one _target_xy call
    target,      \* <<>> before the call returns, then <<x, y>>
    anim,        \* arguments of one _slide_in_position_fn call
    pos_fn,      \* <<>> before the call returns, then <<closure>>
    t_sample,    \* time (<<tn, td>>, ticks) the closure was last sampled at
    pos_val,     \* <<>> or <<position>>: value of the closure at t_sample
    font_req,    \* arguments of one _resolve_font_style call
    os_name,     \* os.name of the platform: "nt" or "posix"
    disk,        \* the paths that exist on disk
    font_style,  \* <<>> before the call returns, then <<path>>
    pc,          \* where process_video_clip stands: "idle" when not running
    args,        \* arguments of the running process_video_clip call
    video,       \* the uploaded video file at input_path
    clip,        \* the opened (and possibly shortened) base clip
    final_clips, \* the composite list handed to the compositor
    segments,    \* the transcription's segments
    seg_idx,     \* index of the segment the caption loop is at
    audio_file,  \* the temporary .wav file: "none", "exists" or "removed"
    ret,         \* <<>> while running, then the returned <<success, message>>
    builder_calls, \* history: the _make_styled_layers invocations of this call
    calls,       \* history: the external collaborators invoked by this call
    ffmpeg,      \* the ffmpeg shim file and PATH of the process
    whisper_loaded, \* whether the cached transcription model is loaded
    failed_before, \* history: an earlier call of this process returned False
    ensure_calls, \* history of SpecFfmpeg: _ensure_ffmpeg_on_path calls so far
    style,       \* arguments of one _make_styled_layers call
    layers,      \* <<>> before the call returns, then the returned layer list
    frame_t,     \* time (<<tn, td>>, ticks) of the last composited frame
    sampled      \* per layer, what its position function did at frame_t

placementVars == <<placement, target>>
slideVars     == <<anim, pos_fn, t_sample, pos_val>>
layerVars     == <<style, layers, frame_t, sampled>>
fontVars      == <<font_req, os_name, disk, font_style>>
callVars      == <<pc, args, video, clip, final_clips, segments, seg_idx,
                   audio_file, ret, builder_calls, calls>>
procVars      == <<callVars, ffmpeg, whisper_loaded, failed_before,
                   ensure_calls>>
vars          == <<placementVars, slideVars, layerVars, fontVars, procVars>>

\* ------------------------------------------------------------------ bounds
MaxFrame  == 4      \* frame sides range over 1..MaxFrame
MaxText   == 5      \* text block sides range over 1..MaxText
MaxMargin == 2      \* margins range over -MaxMargin..MaxMargin
MaxCoord  == 1      \* animation end points range over -MaxCoord..MaxCoord
MaxDur    == 7      \* requested animation durations range over -1..MaxDur ticks
MaxBase   == 2      \* base clip sides of the layer builder range over 1..MaxBase
MaxPos    == 4      \* fixed overlay positions range over -MaxPos..MaxPos
MaxFiles  == 2      \* at most MaxFiles font files exist on disk
MaxSegs   == 2      \* transcriptions of every length up to MaxSegs segments

\* ------------------------------------------------------- Python arithmetic
Max(a, b) == IF a >= b THEN a ELSE b
Min(a, b) == IF a <= b THEN a ELSE b

\* int(n / 2): true division, then truncation toward zero.
IntHalf(n) == IF n >= 0 THEN n \div 2 ELSE -((-n) \div 2)

\* ------------------------------------------------------ placement resolver
Placements == {"top", "bottom", "left", "right", "center"}
DefaultMargin == 24

CenterOffset(margin, dimension, size) == Max(margin, IntHalf(dimension - size))

\* Variant: the top and bottom rows exchanged.
target_xy_swapped(position_sel, video_w, video_h, text_w, text_h, margin) ==
    CASE position_sel = "bottom" ->
           <<CenterOffset(margin, video_w, text_w), margin>>
      [] position_sel = "top" ->
           <<CenterOffset(margin, video_w, text_w),
             Max(margin, video_h - text_h - margin)>>
      [] position_sel = "left" ->
           <<margin, CenterOffset(margin, video_h, text_h)>>
      [] position_sel = "right" ->
           <<Max(margin, video_w - text_w - margin),
             CenterOffset(margin, video_h, text_h)>>
      [] OTHER ->
           <<CenterOffset(margin, video_w, text_w),
             CenterOffset(margin, video_h, text_h)>>

target_xy(position_sel, video_w, video_h, text_w, text_h, margin) ==
    CASE position_sel = "bottom" ->
           <<CenterOffset(margin, video_w, text_w),
             Max(margin, video_h - text_h - margin)>>
      [] position_sel = "top" ->
           <<CenterOffset(margin, video_w, text_w), margin>>
      [] position_sel = "left" ->
           <<margin, CenterOffset(margin, video_h, text_h)>>
      [] position_sel = "right" ->
           <<Max(margin, video_w - text_w - margin),
             CenterOffset(margin, video_h, text_h)>>
      [] OTHER ->
           <<CenterOffset(margin, video_w, text_w),
             CenterOffset(margin, video_h, text_h)>>

\* The example of the specification: Frame(1920,1080), TextBlock(400,100).
ExamplePlacement ==
    [position_sel |-> "bottom", video_w |-> 1920, video_h |-> 1080,
     text_w |-> 400, text_h |-> 100, margin |-> DefaultMargin]

PlacementInputs ==
    [position_sel : Placements, video_w : 1..MaxFrame, video_h : 1..MaxFrame,
     text_w : 1..MaxText, text_h : 1..MaxText, margin : (-MaxMargin)..MaxMargin]
      \cup {ExamplePlacement}

NoPlacement == [position_sel |-> "center", video_w |-> 1, video_h |-> 1,
                text_w |-> 1, text_h |-> 1, margin |-> 0]

IdlePlacement == placement = NoPlacement /\ target = <<>>

TargetXY ==
    /\ target = <<>>
    /\ target' = target_xy(placement.position_sel, placement.video_w,
                           placement.video_h, placement.text_w,
                           placement.text_h, placement.margin)
    /\ UNCHANGED <<placement, slideVars, layerVars, fontVars, procVars>>

\* ------------------------------------------------ animation position function
MinAnimDuration == 5      \* 0.05 s, in ticks

\* Variant: the requested duration taken as it is.
slide_duration_unfloored(anim_duration) == anim_duration

slide_duration(anim_duration) == Max(MinAnimDuration, anim_duration)

\* The closure returned by _slide_in_position_fn.
slide_in_position_fn(start_x, start_y, target_x, target_y, anim_duration) ==
    [kind |-> "slide", start_x |-> start_x, start_y |-> start_y,
     target_x |-> target_x, target_y |-> target_y,
     anim_duration |-> slide_duration(anim_duration)]

\* Variant: the interpolation without its two end cases.
slide_pos_overshoot(f, tn, td) ==
    [xn |-> f.start_x * td * f.anim_duration + (f.target_x - f.start_x) * tn,
     yn |-> f.start_y * td * f.anim_duration + (f.target_y - f.start_y) * tn,
     den |-> td * f.anim_duration]

\* pos(t) of the closure f at t = tn/td ticks.
slide_pos(f, tn, td) ==
    IF tn <= 0 THEN [xn |-> f.start_x, yn |-> f.start_y, den |-> 1]
    ELSE IF tn >= f.anim_duration * td
         THEN [xn |-> f.target_x, yn |-> f.target_y, den |-> 1]
         ELSE [xn |-> f.start_x * td * f.anim_duration
                        + (f.target_x - f.start_x) * tn,
               yn |-> f.start_y * td * f.anim_duration
                        + (f.target_y - f.start_y) * tn,
               den |-> td * f.anim_duration]

AnimInputs ==
    [start_x : (-MaxCoord)..MaxCoord, start_y : (-MaxCoord)..MaxCoord,
     target_x : (-MaxCoord)..MaxCoord, target_y : (-MaxCoord)..MaxCoord,
     anim_duration : (-1)..MaxDur]

\* Sample times: whole and half ticks from before 0 to after the longest slide.
SampleTimes ==
    {<<tn, td>> \in ((-1)..(2 * MaxDur + 2)) \X {1, 2} :
        \/ td = 1 /\ tn <= MaxDur + 1
        \/ td = 2 /\ tn % 2 = 1}

NoAnim == [start_x |-> 0, start_y |-> 0, target_x |-> 0, target_y |-> 0,
           anim_duration |-> 0]

IdleSlide == anim = NoAnim /\ pos_fn = <<>> /\ t_sample = <<0, 1>> /\ pos_val = <<>>

SlideIn ==
    /\ pos_fn = <<>>
    /\ pos_fn' = <<slide_in_position_fn(anim.start_x, anim.start_y, anim.target_x,
                                        anim.target_y, anim.anim_duration)>>
    /\ UNCHANGED <<anim, t_sample, pos_val, placementVars, layerVars, fontVars, procVars>>

\* The compositor samples the closure at a frame time, in any order.
SamplePos ==
    /\ pos_fn # <<>>
    /\ \E t \in SampleTimes :
         /\ t_sample' = t
         /\ pos_val' = <<slide_pos(pos_fn[1], t[1], t[2])>>
    /\ UNCHANGED <<anim, pos_fn, placementVars, layerVars, fontVars, procVars>>


\* ------------------------------------------------------------- layer clamp
ClampEdge == 1

\* _as_pos_fn: a fixed point becomes the constant function; a callable is kept.
FixedPos(x, y) == [kind |-> "fixed", x |-> x, y |-> y]

as_pos_fn(pos, tn, td) ==
    IF pos.kind = "fixed" THEN [xn |-> pos.x, yn |-> pos.y, den |-> 1]
    ELSE slide_pos(pos, tn, td)

\* The position p moved by the whole-pixel offset (dx, dy).
Offset(p, dx, dy) ==
    [xn |-> p.xn + dx * p.den, yn |-> p.yn + dy * p.den, den |-> p.den]

\* Variant: only the upper bounds applied.
clamp_xy_no_lower(p, clip_w, clip_h, base_w, base_h) ==
    LET bw == Max(1, base_w)
        bh == Max(1, base_h)
    IN  [xn |-> Min(p.xn, (bw - ClampEdge) * p.den),
         yn |-> Min(p.yn, (bh - ClampEdge) * p.den),
         den |-> p.den]

\* Variant: the lower bound at 0, the layer kept wholly right of and below it.
clamp_xy_inset(p, clip_w, clip_h, base_w, base_h) ==
    LET cw == Max(1, clip_w)
        ch == Max(1, clip_h)
        bw == Max(1, base_w)
        bh == Max(1, base_h)
    IN  [xn |-> Min(Max(p.xn, 0), (bw - ClampEdge) * p.den),
         yn |-> Min(Max(p.yn, 0), (bh - ClampEdge) * p.den),
         den |-> p.den]

\* clamp_xy of _make_styled_layers, base_w and base_h being the base clip's size.
clamp_xy(p, clip_w, clip_h, base_w, base_h) ==
    LET cw == Max(1, clip_w)
        ch == Max(1, clip_h)
        bw == Max(1, base_w)
        bh == Max(1, base_h)
        min_x == -cw + ClampEdge
        max_x == bw - ClampEdge
        min_y == -ch + ClampEdge
        max_y == bh - ClampEdge
    IN  [xn |-> Min(Max(p.xn, min_x * p.den), max_x * p.den),
         yn |-> Min(Max(p.yn, min_y * p.den), max_y * p.den),
         den |-> p.den]

\* ---------------------------------------------------- segment layer builder
MinLayerDuration == 5     \* 0.05 s, in ticks

\* One composited layer: its clip's size and timing, and what its position
\* function (box_pos, shadow_pos or main_pos) captured: the shared position
\* function, the base clip's size and the layer's own offset.
Layer(kind, w, h, start, duration, dx, dy, pos, base_w, base_h) ==
    [kind |-> kind, w |-> w, h |-> h, start |-> start, duration |-> duration,
     dx |-> dx, dy |-> dy, pos |-> pos, base_w |-> base_w, base_h |-> base_h]

\* Variant: the flag alone decides.
box_shown_ignoring_opacity(box_enabled, box_opacity) == box_enabled

box_shown(box_enabled, box_opacity) == box_enabled /\ box_opacity > 0

shadow_shown(shadow_enabled, shadow_opacity) ==
    shadow_enabled /\ shadow_opacity > 0

\* Variant: the main text appended first, the box last.
make_styled_layers_text_first(a) ==
    LET duration == Max(MinLayerDuration, a.duration)
        txt_w == Max(1, a.text_box_w)
        txt_h == Max(1, a.text_box_h)
        pad == Max(0, a.box_padding)
        main == <<Layer("text", txt_w, txt_h, a.start, duration, 0, 0,
                        a.pos, a.base_w, a.base_h)>>
        box == IF box_shown(a.box_enabled, a.box_opacity)
               THEN <<Layer("box", Max(1, txt_w + pad * 2), Max(1, txt_h + pad * 2),
                            a.start, duration, -pad, -pad,
                            a.pos, a.base_w, a.base_h)>>
               ELSE <<>>
        shadow == IF shadow_shown(a.shadow_enabled, a.shadow_opacity)
                  THEN <<Layer("shadow", txt_w, txt_h, a.start, duration,
                               a.shadow_dx, a.shadow_dy,
                               a.pos, a.base_w, a.base_h)>>
                  ELSE <<>>
    IN  main \o shadow \o box

\* _make_styled_layers: the returned list `layers`; the text clip returned
\* beside it is the clip of the list's last layer.
make_styled_layers(a) ==
    LET duration == Max(MinLayerDuration, a.duration)
        txt_w == Max(1, a.text_box_w)
        txt_h == Max(1, a.text_box_h)
        pad == Max(0, a.box_padding)
        box == IF box_shown(a.box_enabled, a.box_opacity)
               THEN <<Layer("box", Max(1, txt_w + pad * 2), Max(1, txt_h + pad * 2),
                            a.start, duration, -pad, -pad,
                            a.pos, a.base_w, a.base_h)>>
               ELSE <<>>
        shadow == IF shadow_shown(a.shadow_enabled, a.shadow_opacity)
                  THEN <<Layer("shadow", txt_w, txt_h, a.start, duration,
                               a.shadow_dx, a.shadow_dy,
                               a.pos, a.base_w, a.base_h)>>
                  ELSE <<>>
        main == <<Layer("text", txt_w, txt_h, a.start, duration, 0, 0,
                        a.pos, a.base_w, a.base_h)>>
    IN  box \o shadow \o main

\* Variant: the shared position is clamped first and the offset added after.
layer_pos_offset_last(l, tn, td) ==
    LET shared == as_pos_fn(l.pos, tn, td)
    IN  [raw |-> Offset(shared, l.dx, l.dy),
         pos |-> Offset(clamp_xy(shared, l.w, l.h, l.base_w, l.base_h),
                        l.dx, l.dy)]

\* box_pos / shadow_pos / main_pos at t = tn/td: the shared position function's
\* value moved by the layer's offset (raw), then clamped with the layer's size.
layer_pos(l, tn, td) ==
    LET raw == Offset(as_pos_fn(l.pos, tn, td), l.dx, l.dy)
    IN  [raw |-> raw, pos |-> clamp_xy(raw, l.w, l.h, l.base_w, l.base_h)]

\* Style settings of the builder's callers, opacities in percent.
Opacities == {0, 50}
ShadowOffsets == {<<2, 2>>, <<-2, 1>>}
BoxPaddings == {-1, 1}
TextBoxSides == {1, 2}
LayerTimings == {<<120, 180>>}

\* Slide-in functions the builder is handed: from outside the frame to inside.
LayerSlides ==
    {slide_in_position_fn(-MaxPos, 0, 1, 1, 6),
     slide_in_position_fn(0, MaxPos, 0, -MaxPos, 4)}

LayerPositions ==
    {FixedPos(x, 0) : x \in (-MaxPos)..MaxPos}
      \cup {FixedPos(0, y) : y \in (-MaxPos)..MaxPos}
      \cup {FixedPos(x, y) : x \in {-MaxPos, MaxPos}, y \in {-MaxPos, MaxPos}}
      \cup LayerSlides

StyleInputs ==
    {[base_w |-> bw, base_h |-> bh, text_box_w |-> tw, text_box_h |-> th,
      pos |-> p, start |-> tm[1], duration |-> tm[2],
      shadow_enabled |-> se, shadow_opacity |-> so,
      shadow_dx |-> sd[1], shadow_dy |-> sd[2],
      box_enabled |-> be, box_opacity |-> bo, box_padding |-> bp] :
        bw \in 1..MaxBase, bh \in 1..MaxBase,
        tw \in TextBoxSides, th \in TextBoxSides,
        p \in LayerPositions, tm \in LayerTimings,
        se \in BOOLEAN, so \in Opacities, sd \in ShadowOffsets,
        be \in BOOLEAN, bo \in Opacities, bp \in BoxPaddings}

LayerSampleTimes == {<<0, 1>>, <<5, 2>>, <<7, 1>>}

NoStyle ==
    [base_w |-> 1, base_h |-> 1, text_box_w |-> 1, text_box_h |-> 1,
     pos |-> FixedPos(0, 0), start |-> 0, duration |-> 0,
     shadow_enabled |-> FALSE, shadow_opacity |-> 0, shadow_dx |-> 0,
     shadow_dy |-> 0, box_enabled |-> FALSE, box_opacity |-> 0,
     box_padding |-> 0]

IdleLayers ==
    style = NoStyle /\ layers = <<>> /\ frame_t = <<0, 1>> /\ sampled = <<>>

MakeStyledLayers ==
    /\ layers = <<>>
    /\ layers' = make_styled_layers(style)
    /\ UNCHANGED <<style, frame_t, sampled, placementVars, slideVars, fontVars, procVars>>

\* Variant: a sliding position function remembers that it was called and
\* starts from its target from then on.
RenderFrameStateful ==
    /\ layers # <<>>
    /\ \E t \in LayerSampleTimes :
         /\ frame_t' = t
         /\ sampled' = [i \in 1..Len(layers) |-> layer_pos(layers[i], t[1], t[2])]
    /\ layers' = [i \in 1..Len(layers) |->
                    IF layers[i].pos.kind = "slide"
                    THEN [layers[i] EXCEPT
                            !.pos.start_x = layers[i].pos.target_x,
                            !.pos.start_y = layers[i].pos.target_y]
                    ELSE layers[i]]
    /\ UNCHANGED <<style, placementVars, slideVars, fontVars, procVars>>

\* The compositor renders one frame: it calls every layer's position function.
RenderFrame ==
    /\ layers # <<>>
    /\ \E t \in LayerSampleTimes :
         /\ frame_t' = t
         /\ sampled' = [i \in 1..Len(layers) |-> layer_pos(layers[i], t[1], t[2])]
    /\ UNCHANGED <<style, layers, placementVars, slideVars, fontVars, procVars>>

\* --------------------------------------------------------- font resolution
\* A path is <<directory, name>>: os.path.join(directory, name).  A bare file
\* name has the directory "", and the empty string is <<"", "">>.
Join(dir, name) == <<dir, name>>
EmptyPath == <<"", "">>

WindowsFonts == "C:\\Windows\\Fonts"
BundledDir == "fonts"
DejaVuDir == "/usr/share/fonts/truetype/dejavu"
LiberationDir == "/usr/share/fonts/truetype/liberation"

Variant(regular, bold, italic, bold_italic) ==
    [regular |-> regular, bold |-> bold, italic |-> italic,
     bold_italic |-> bold_italic]

ArialVariant == Variant("arial.ttf", "arialbd.ttf", "ariali.ttf", "arialbi.ttf")

\* variants.get(font_key, variants["Arial"])
variants(font_key) ==
    CASE font_key = "Arial" -> ArialVariant
      [] font_key = "Helvetica" -> ArialVariant
      [] font_key = "Courier" ->
           Variant("cour.ttf", "courbd.ttf", "couri.ttf", "courbi.ttf")
      [] font_key = "Times New Roman" ->
           Variant("times.ttf", "timesbd.ttf", "timesi.ttf", "timesbi.ttf")
      [] font_key = "Georgia" ->
           Variant("georgia.ttf", "georgiab.ttf", "georgiai.ttf", "georgiaz.ttf")
      [] font_key = "Verdana" ->
           Variant("verdana.ttf", "verdanab.ttf", "verdanai.ttf", "verdanaz.ttf")
      [] font_key = "Impact" ->
           Variant("impact.ttf", "impact.ttf", "impact.ttf", "impact.ttf")
      [] OTHER -> ArialVariant

font_filename(font_key, bold, italic) ==
    LET chosen == variants(font_key)
    IN  IF bold /\ italic THEN chosen.bold_italic
        ELSE IF bold THEN chosen.bold
        ELSE IF italic THEN chosen.italic
        ELSE chosen.regular

\* The names tried in the bundled fonts directory, in order.
desired(font_key, bold, italic) ==
    (IF font_key \in {"Arial", "Helvetica"}
     THEN IF bold /\ italic
          THEN <<"arialbi.ttf", "Arial Bold Italic.ttf", "Arial-BoldItalic.ttf">>
          ELSE IF bold
          THEN <<"arialbd.ttf", "Arial Bold.ttf", "Arial-Bold.ttf">>
          ELSE IF italic
          THEN <<"ariali.ttf", "Arial Italic.ttf", "Arial-Italic.ttf">>
          ELSE <<"arial.ttf", "Arial.ttf">>
     ELSE <<>>)
      \o <<font_filename(font_key, bold, italic)>>

\* The system font files tried last, in order (no path is added twice).
linux_candidates(font_key) ==
    (IF font_key \in {"Arial", "Helvetica", "Verdana", "Impact"}
     THEN <<Join(DejaVuDir, "DejaVuSans.ttf"),
            Join(DejaVuDir, "DejaVuSans-Bold.ttf"),
            Join(DejaVuDir, "DejaVuSans-Oblique.ttf"),
            Join(DejaVuDir, "DejaVuSans-BoldOblique.ttf")>>
     ELSE IF font_key \in {"Courier"}
     THEN <<Join(DejaVuDir, "DejaVuSansMono.ttf"),
            Join(DejaVuDir, "DejaVuSansMono-Bold.ttf"),
            Join(DejaVuDir, "DejaVuSansMono-Oblique.ttf"),
            Join(DejaVuDir, "DejaVuSansMono-BoldOblique.ttf")>>
     ELSE <<Join(DejaVuDir, "DejaVuSerif.ttf"),
            Join(DejaVuDir, "DejaVuSerif-Bold.ttf"),
            Join(DejaVuDir, "DejaVuSerif-Italic.ttf"),
            Join(DejaVuDir, "DejaVuSerif-BoldItalic.ttf")>>)
      \o <<Join(LiberationDir, "LiberationSans-Regular.ttf"),
           Join(LiberationDir, "LiberationSans-Bold.ttf"),
           Join(LiberationDir, "LiberationSans-Italic.ttf"),
           Join(LiberationDir, "LiberationSans-BoldItalic.ttf"),
           Join(LiberationDir, "LiberationSerif-Regular.ttf"),
           Join(LiberationDir, "LiberationMono-Regular.ttf")>>

\* Variant: the loop keeps going and returns the last candidate that exists.
LastExisting(candidates, files, otherwise) ==
    LET hits == {i \in 1..Len(candidates) : candidates[i] \in files}
    IN  IF hits = {} THEN otherwise
        ELSE candidates[CHOOSE i \in hits : \A j \in hits : j <= i]

\* `for candidate in candidates: if os.path.exists(candidate): return candidate`,
\* with `otherwise` for a loop that ends without returning.
FirstExisting(candidates, files, otherwise) ==
    LET hits == {i \in 1..Len(candidates) : candidates[i] \in files}
    IN  IF hits = {} THEN otherwise
        ELSE candidates[CHOOSE i \in hits : \A j \in hits : i <= j]

\* Variant: the uploaded font used only when nothing else is found.
resolve_font_style_custom_last(font_key, bold, italic, custom_font_path, os, files) ==
    LET chosen == variants(font_key)
        name == font_filename(font_key, bold, italic)
        bundled == IF Join("", BundledDir) \in files
                   THEN [i \in 1..Len(desired(font_key, bold, italic)) |->
                           Join(BundledDir, desired(font_key, bold, italic)[i])]
                   ELSE <<>>
    IN  IF os = "nt"
        THEN IF Join(WindowsFonts, name) \in files
             THEN Join(WindowsFonts, name)
             ELSE Join("", chosen.regular)
        ELSE FirstExisting(bundled \o linux_candidates(font_key), files,
                           custom_font_path)

\* _resolve_font_style, os being os.name and files the paths that exist.
resolve_font_style(font_key, bold, italic, custom_font_path, os, files) ==
    LET chosen == variants(font_key)
        name == font_filename(font_key, bold, italic)
        bundled == IF Join("", BundledDir) \in files
                   THEN [i \in 1..Len(desired(font_key, bold, italic)) |->
                           Join(BundledDir, desired(font_key, bold, italic)[i])]
                   ELSE <<>>
    IN  IF custom_font_path # EmptyPath THEN custom_font_path
        ELSE IF os = "nt"
        THEN IF Join(WindowsFonts, name) \in files
             THEN Join(WindowsFonts, name)
             ELSE Join("", chosen.regular)
        ELSE FirstExisting(bundled, files,
                           FirstExisting(linux_candidates(font_key), files,
                                         EmptyPath))

FontKeys == {"Arial", "Helvetica", "Courier", "Times New Roman", "Impact",
             "Georgia", "Verdana", "Comic Sans"}

UploadedFont == Join("/tmp", "tmpfont.ttf")

\* Font files that may exist: some of every directory the function looks in.
FontFiles ==
    {Join(WindowsFonts, "arial.ttf"), Join(WindowsFonts, "arialbd.ttf"),
     Join(WindowsFonts, "cour.ttf"), Join(WindowsFonts, "georgiaz.ttf"),
     Join(BundledDir, "arial.ttf"), Join(BundledDir, "Arial.ttf"),
     Join(BundledDir, "arialbd.ttf"), Join(BundledDir, "Arial Bold.ttf"),
     Join(BundledDir, "courbd.ttf"), Join(BundledDir, "impact.ttf"),
     Join(DejaVuDir, "DejaVuSans.ttf"), Join(DejaVuDir, "DejaVuSans-Bold.ttf"),
     Join(DejaVuDir, "DejaVuSansMono-Bold.ttf"),
     Join(DejaVuDir, "DejaVuSerif.ttf"),
     Join(LiberationDir, "LiberationSans-Regular.ttf"),
     Join(LiberationDir, "LiberationMono-Regular.ttf")}

RECURSIVE SubsetsUpTo(_, _)
SubsetsUpTo(S, n) ==
    IF n = 0 THEN {{}}
    ELSE LET smaller == SubsetsUpTo(S, n - 1)
         IN  smaller \cup {T \cup {x} : T \in smaller, x \in S}

\* A file of the bundled directory exists only if the directory does.
Disks ==
    {d \in {F \cup D : F \in SubsetsUpTo(FontFiles, MaxFiles),
                        D \in {{}, {Join("", BundledDir)}}} :
        (\E f \in d : f[1] = BundledDir) => Join("", BundledDir) \in d}

FontRequests ==
    [font_key : FontKeys, bold : BOOLEAN, italic : BOOLEAN,
     custom_font_path : {EmptyPath, UploadedFont}]

NoFontRequest == [font_key |-> "", bold |-> FALSE, italic |-> FALSE,
                  custom_font_path |-> EmptyPath]

IdleFont ==
    font_req = NoFontRequest /\ os_name = "posix" /\ disk = {} /\ font_style = <<>>

ResolveFontStyle ==
    /\ font_style = <<>>
    /\ font_style' = <<resolve_font_style(font_req.font_key, font_req.bold,
                                          font_req.italic,
                                          font_req.custom_font_path,
                                          os_name, disk)>>
    /\ UNCHANGED <<font_req, os_name, disk, placementVars, slideVars, layerVars,
                   procVars>>

\* -------------------------------------------------------------- ffmpeg shim
MaxEnsure == 3      \* SpecFfmpeg calls _ensure_ffmpeg_on_path up to MaxEnsure times

\* What imageio_ffmpeg.get_ffmpeg_exe() does: it raises, or it returns a path
\* at which there is no file, or the path of the bundled binary.
ExeStates == {"raises", "missing", "exists"}

\* The shim directory .ffmpeg_bin: it is absent and cannot be made (makedirs
\* raises), or it is there (or can be made) and cannot be written into
\* (copyfile raises), or it can be written into.
DirStates == {"unmakeable", "readonly", "writable"}

\* Variant: the copy is made without looking for the shim file.
ensure_ffmpeg_on_path_always_copy(f) ==
    IF f.exe = "raises" \/ f.dir = "unmakeable" THEN f
    ELSE IF f.exe = "exists" /\ f.dir = "readonly" THEN f
    ELSE [f EXCEPT !.shim = @ \/ f.exe = "exists",
                   !.copies = IF f.exe = "exists" THEN @ + 1 ELSE @,
                   !.on_path = TRUE,
                   !.prepends = IF f.on_path THEN @ ELSE @ + 1]

\* _ensure_ffmpeg_on_path on f = [exe, dir, shim, on_path, copies, prepends]:
\* shim says the shim file exists, on_path that PATH holds the shim
\* directory; copies and prepends count the copies made and the PATH entries
\* added.  Whatever raises inside is swallowed and leaves the rest undone.
ensure_ffmpeg_on_path(f) ==
    IF f.exe = "raises" \/ f.dir = "unmakeable" THEN f
    ELSE IF ~f.shim /\ f.exe = "exists" /\ f.dir = "readonly" THEN f
    ELSE [f EXCEPT !.shim = @ \/ f.exe = "exists",
                   !.copies = IF ~f.shim /\ f.exe = "exists" THEN @ + 1 ELSE @,
                   !.on_path = TRUE,
                   !.prepends = IF f.on_path THEN @ ELSE @ + 1]

FreshFfmpeg == [exe |-> "exists", dir |-> "writable", shim |-> FALSE,
                on_path |-> FALSE, copies |-> 0, prepends |-> 0]

\* The environments a process may start in: a shim file exists only in a
\* directory that exists; nothing has been copied or prepended yet.
FfmpegStates ==
    {f \in [exe : ExeStates, dir : DirStates, shim : BOOLEAN,
            on_path : BOOLEAN, copies : {0}, prepends : {0}] :
        f.shim => f.dir # "unmakeable"}

\* One call of _ensure_ffmpeg_on_path, from process_video_clip or from
\* load_whisper_model; it returns whatever happened inside.
EnsureFfmpegOnPath ==
    /\ ensure_calls < MaxEnsure
    /\ ffmpeg' = ensure_ffmpeg_on_path(ffmpeg)
    /\ ensure_calls' = ensure_calls + 1
    /\ UNCHANGED <<callVars, whisper_loaded, failed_before, placementVars,
                   slideVars, layerVars, fontVars>>

\* -------------------------------------------------------------------- text
\* A text is a sequence of characters; None is the text NoneText.
NoneText == <<"None">>
IsSpace(c) == c \in {" ", "\n"}

\* Variant: `text is None`.
FalsyNoneOnly(text) == text = NoneText

\* `not text`
Falsy(text) == text = NoneText \/ text = <<>>

\* `text or ""`
OrEmpty(text) == IF text = NoneText THEN <<>> ELSE text

RECURSIVE LStrip(_)
LStrip(text) ==
    IF text # <<>> /\ IsSpace(Head(text)) THEN LStrip(Tail(text)) ELSE text

RECURSIVE RStrip(_)
RStrip(text) ==
    IF text # <<>> /\ IsSpace(text[Len(text)])
    THEN RStrip(SubSeq(text, 1, Len(text) - 1))
    ELSE text

\* Variant: no stripping.
StripNothing(text) == text

\* str.strip()
Strip(text) == RStrip(LStrip(text))

\* -------------------------------------------------------- process_video_clip
NoAudioMessage == "No audio track found to generate captions."
EmptyTextMessage == "Overlay text is empty."

\* The message of the except clause that catches the exception exc.
except_message(exc) ==
    IF exc = "FileNotFoundError"
    THEN "str(e) + ffmpeg was not found on PATH"
    ELSE "str(e)"

Exceptions == {"FileNotFoundError", "Exception"}

\* The box the text is laid out in: (int(clip.w * 0.9), max(1, int(clip.h * 0.25)))
\* for captions, (int(clip.w), max(1, int(clip.h * 0.25))) for a manual overlay.
caption_text_box(c) == <<(c.w * 9) \div 10, Max(1, c.h \div 4)>>
manual_text_box(c) == <<c.w, Max(1, c.h \div 4)>>

\* Sizes the text-rendering engine may report for a text laid out in a box.
MeasuredSizes(box) == {box, <<Max(1, box[1] \div 2), Max(1, box[2] - 1)>>}

AnimEdge == 1

\* Variant: the start point at the frame's left top corner on the moving axis.
anim_start_at_origin(animate_from, target_x, target_y, measure_w, measure_h, c) ==
    IF animate_from = "top" THEN <<target_x, 0>>
    ELSE IF animate_from = "left" THEN <<0, target_y>>
    ELSE IF animate_from = "right" THEN <<c.w - AnimEdge, target_y>>
    ELSE <<target_x, c.h - AnimEdge>>

\* The start point of the slide-in: (start_x, start_y).
anim_start(animate_from, target_x, target_y, measure_w, measure_h, c) ==
    IF animate_from = "top" THEN <<target_x, -measure_h + AnimEdge>>
    ELSE IF animate_from = "left" THEN <<-measure_w + AnimEdge, target_y>>
    ELSE IF animate_from = "right" THEN <<c.w - AnimEdge, target_y>>
    ELSE <<target_x, c.h - AnimEdge>>

\* `pos` of one overlay: a slide-in closure when animating, else the target.
overlay_pos(a, c, measure, anim_duration) ==
    LET tgt == target_xy(a.position_sel, c.w, c.h, measure[1], measure[2],
                         DefaultMargin)
        st == anim_start(a.animate_from, tgt[1], tgt[2], measure[1],
                         measure[2], c)
    IN  IF a.animate_in
        THEN slide_in_position_fn(st[1], st[2], tgt[1], tgt[2], anim_duration)
        ELSE FixedPos(tgt[1], tgt[2])

\* The keyword arguments of a _make_styled_layers call.
builder_args(a, c, box, pos, start, duration) ==
    [base_w |-> c.w, base_h |-> c.h,
     text_box_w |-> box[1], text_box_h |-> box[2],
     pos |-> pos, start |-> start, duration |-> duration,
     shadow_enabled |-> a.shadow_enabled, shadow_opacity |-> a.shadow_opacity,
     shadow_dx |-> a.shadow_dx, shadow_dy |-> a.shadow_dy,
     box_enabled |-> a.box_enabled, box_opacity |-> a.box_opacity,
     box_padding |-> a.box_padding]

MinSegDuration == 5       \* 0.05 s, in ticks

seg_duration(seg) == Max(MinSegDuration, seg.end - seg.start)

\* Variant: the requested animation duration passed on as it is.
caption_builder_args_uncapped(a, c, seg, measure) ==
    builder_args(a, c, caption_text_box(c),
                 overlay_pos(a, c, measure, a.animate_duration),
                 seg.start, seg_duration(seg))

\* Variant: every caption layer starts with the clip.
caption_builder_args_from_zero(a, c, seg, measure) ==
    builder_args(a, c, caption_text_box(c),
                 overlay_pos(a, c, measure,
                             Min(a.animate_duration, seg_duration(seg))),
                 0, seg_duration(seg))

caption_builder_args(a, c, seg, measure) ==
    builder_args(a, c, caption_text_box(c),
                 overlay_pos(a, c, measure,
                             Min(a.animate_duration, seg_duration(seg))),
                 seg.start, seg_duration(seg))

manual_builder_args(a, c, measure) ==
    builder_args(a, c, manual_text_box(c),
                 overlay_pos(a, c, measure, a.animate_duration),
                 0, c.duration)

\* `for layer in layers: final_clips.append(layer)`
append_layers(clips, ls) == clips \o ls

\* The clip after `clip.subclipped(0, final_dur)` when limit_duration applies.
open_clip(v, limit_duration) ==
    [kind |-> "base", w |-> v.w, h |-> v.h, audio |-> v.audio,
     duration |-> IF limit_duration # 0 /\ limit_duration < v.duration
                  THEN limit_duration ELSE v.duration]

NoClip == [kind |-> "base", w |-> 0, h |-> 0, audio |-> FALSE, duration |-> 0]

\* ---- inputs
OverlayTexts == {NoneText, <<>>, <<" ">>, <<"H", "i">>}
SegTexts == {<<>>, <<" ", "\n">>, <<" ", "a", " ">>}
AnimateDurations == {3, 140}
Animations ==
    {[animate_in |-> FALSE, animate_from |-> "bottom", animate_duration |-> 60]}
      \cup [animate_in : {TRUE}, animate_from : {"top", "left", "right", "bottom"},
            animate_duration : AnimateDurations]
BoxStyles == {<<FALSE, 25>>, <<TRUE, 0>>, <<TRUE, 25>>}
ShadowStyles == {<<FALSE, 40>>, <<TRUE, 40>>}
PlacementChoices == {"bottom", "right"}
LimitDurations == {0, 100}        \* 0: no limit (None)

ProcArgs(tx, ps, ld, uc, an, sh, bx) ==
    [text |-> tx, position_sel |-> ps, limit_duration |-> ld,
     use_captions |-> uc,
     animate_in |-> an.animate_in, animate_from |-> an.animate_from,
     animate_duration |-> an.animate_duration,
     shadow_enabled |-> sh[1], shadow_opacity |-> sh[2],
     shadow_dx |-> 2, shadow_dy |-> 2,
     box_enabled |-> bx[1], box_opacity |-> bx[2], box_padding |-> 16]

\* Manual overlays of every text, whole or shortened; caption runs of the whole
\* video, with no overlay text (as the page passes it) or with one.
ProcInputs ==
    {ProcArgs(tx, ps, ld, FALSE, an, sh, bx) :
        tx \in OverlayTexts, ps \in PlacementChoices, ld \in LimitDurations,
        an \in Animations, sh \in ShadowStyles, bx \in BoxStyles}
      \cup
    {ProcArgs(tx, ps, 0, TRUE, an, sh, bx) :
        tx \in {NoneText, <<"H", "i">>}, ps \in PlacementChoices,
        an \in Animations, sh \in ShadowStyles, bx \in BoxStyles}

Videos == [w : {640}, h : {360}, audio : BOOLEAN, duration : {450}]

\* Segment i of a transcription of the example: (0.0,1.2), (1.2,3.0), (3.0,4.5),
\* then segments of 0.03 s.
SlotTimes(i) ==
    CASE i = 1 -> <<0, 120>>
      [] i = 2 -> <<120, 300>>
      [] i = 3 -> <<300, 450>>
      [] OTHER -> <<450 + 3 * (i - 4), 450 + 3 * (i - 3)>>

Segment(i, text) ==
    [start |-> SlotTimes(i)[1], end |-> SlotTimes(i)[2], text |-> text]

\* The example of the specification: three spoken segments.
ExampleTranscript ==
    <<Segment(1, <<" ", "a", " ">>), Segment(2, <<" ", "a", " ">>),
      Segment(3, <<" ", "a", " ">>)>>

\* Every transcription of at most MaxSegs segments, the example, and
\* transcriptions of one segment of 0.03 s.
Transcripts ==
    {[i \in 1..Len(ts) |-> Segment(i, ts[i])] :
        ts \in UNION {[1..n -> SegTexts] : n \in 0..MaxSegs}}
      \cup {ExampleTranscript}
      \cup {<<[start |-> 10, end |-> 13, text |-> t]>> : t \in SegTexts}

NoArgs ==
    [text |-> NoneText, position_sel |-> "", limit_duration |-> 0,
     use_captions |-> FALSE, animate_in |-> FALSE, animate_from |-> "",
     animate_duration |-> 0, shadow_enabled |-> FALSE, shadow_opacity |-> 0,
     shadow_dx |-> 0, shadow_dy |-> 0, box_enabled |-> FALSE,
     box_opacity |-> 0, box_padding |-> 0]

NoVideo == [w |-> 0, h |-> 0, audio |-> FALSE, duration |-> 0]

IdleCall ==
    /\ pc = "idle" /\ args = NoArgs /\ video = NoVideo /\ clip = NoClip
    /\ final_clips = <<>> /\ segments = <<>> /\ seg_idx = 0
    /\ audio_file = "none" /\ ret = <<>> /\ builder_calls = <<>> /\ calls = <<>>

IdleProc ==
    IdleCall /\ ffmpeg = FreshFfmpeg /\ whisper_loaded = FALSE
      /\ failed_before = FALSE /\ ensure_calls = 0

otherVars == <<placementVars, slideVars, layerVars, fontVars>>

\* ---- steps
\* A button click: process_video_clip is called on the uploaded video.
Call ==
    /\ pc = "idle"
    /\ args' \in ProcInputs
    /\ video' \in Videos
    /\ pc' = "start"
    /\ UNCHANGED <<clip, final_clips, segments, seg_idx, audio_file, ret,
                   builder_calls, calls, ffmpeg, whisper_loaded, failed_before,
                   ensure_calls, otherVars>>

\* `return ok, message`, from the body or from an except clause.
Return(ok, message) == ret' = <<ok, message>> /\ pc' = "returned"

\* Lines 489-490: the shim is ensured, then VideoFileClip raises.
OpenFails ==
    /\ pc = "start"
    /\ ffmpeg' = ensure_ffmpeg_on_path(ffmpeg)
    /\ calls' = Append(calls, "VideoFileClip")
    /\ \E exc \in Exceptions : Return(FALSE, except_message(exc))
    /\ UNCHANGED <<args, video, clip, final_clips, segments, seg_idx,
                   audio_file, builder_calls, whisper_loaded, failed_before,
                   ensure_calls, otherVars>>

\* Lines 489-506 and 603-604: the clip opens and is shortened; then either an
\* input check returns, or the temporary audio file is created (captions), or
\* the manual overlay is next.
OpenClip ==
    /\ pc = "start"
    /\ ffmpeg' = ensure_ffmpeg_on_path(ffmpeg)
    /\ calls' = Append(calls, "VideoFileClip")
    /\ LET c == open_clip(video, args.limit_duration)
       IN  /\ clip' = c
           /\ final_clips' = <<c>>
           /\ IF args.use_captions
              THEN IF ~c.audio
                   THEN Return(FALSE, NoAudioMessage) /\ UNCHANGED audio_file
                   ELSE pc' = "write_audio" /\ audio_file' = "exists"
                        /\ UNCHANGED ret
              ELSE IF Falsy(args.text)
                   THEN Return(FALSE, EmptyTextMessage) /\ UNCHANGED audio_file
                   ELSE pc' = "manual" /\ UNCHANGED <<ret, audio_file>>
    /\ UNCHANGED <<args, video, segments, seg_idx, builder_calls,
                   whisper_loaded, failed_before,
                   ensure_calls, otherVars>>

\* Line 507: clip.audio.write_audiofile(audio_path).
WriteAudio ==
    /\ pc = "write_audio"
    /\ calls' = Append(calls, "write_audiofile")
    /\ pc' = "transcribe"
    /\ UNCHANGED <<args, video, clip, final_clips, segments, seg_idx,
                   audio_file, ret, builder_calls, ffmpeg, whisper_loaded,
                   failed_before,
                   ensure_calls, otherVars>>

WriteAudioFails ==
    /\ pc = "write_audio"
    /\ calls' = Append(calls, "write_audiofile")
    /\ \E exc \in Exceptions : Return(FALSE, except_message(exc))
    /\ UNCHANGED <<args, video, clip, final_clips, segments, seg_idx,
                   audio_file, builder_calls, ffmpeg, whisper_loaded, failed_before,
                   ensure_calls, otherVars>>

\* Line 509, load_whisper_model: cached once loaded; the first load ensures the
\* shim and then calls whisper.load_model.
load_whisper_model(f, loaded) == IF loaded THEN f ELSE ensure_ffmpeg_on_path(f)

\* Lines 509-514 and the loop's end when there is no segment: the model
\* transcribes, and the temporary audio file is removed.
Transcribe ==
    /\ pc = "transcribe"
    /\ ffmpeg' = load_whisper_model(ffmpeg, whisper_loaded)
    /\ whisper_loaded' = TRUE
    /\ calls' = Append(calls, "transcribe")
    /\ \E result \in Transcripts :
         /\ segments' = result
         /\ seg_idx' = 1
         /\ pc' = IF result = <<>> THEN "render" ELSE "segments"
    /\ audio_file' = "removed"
    /\ UNCHANGED <<args, video, clip, final_clips, ret, builder_calls, failed_before,
                   ensure_calls, otherVars>>

\* whisper.load_model raises: nothing is cached.
LoadModelFails ==
    /\ pc = "transcribe"
    /\ ~whisper_loaded
    /\ ffmpeg' = ensure_ffmpeg_on_path(ffmpeg)
    /\ \E exc \in Exceptions : Return(FALSE, except_message(exc))
    /\ UNCHANGED <<args, video, clip, final_clips, segments, seg_idx,
                   audio_file, builder_calls, calls, whisper_loaded, failed_before,
                   ensure_calls, otherVars>>

\* model.transcribe raises.
TranscribeFails ==
    /\ pc = "transcribe"
    /\ ffmpeg' = load_whisper_model(ffmpeg, whisper_loaded)
    /\ whisper_loaded' = TRUE
    /\ calls' = Append(calls, "transcribe")
    /\ \E exc \in Exceptions : Return(FALSE, except_message(exc))
    /\ UNCHANGED <<args, video, clip, final_clips, segments, seg_idx,
                   audio_file, builder_calls, failed_before,
                   ensure_calls, otherVars>>

SegText(seg) == Strip(OrEmpty(seg.text))

AfterSegment == IF seg_idx = Len(segments) THEN "render" ELSE "segments"

\* Lines 516-522: a segment whose stripped text is empty is skipped.
SkipSegment ==
    /\ pc = "segments"
    /\ SegText(segments[seg_idx]) = <<>>
    /\ seg_idx' = seg_idx + 1
    /\ pc' = AfterSegment
    /\ UNCHANGED <<args, video, clip, final_clips, segments, audio_file, ret,
                   builder_calls, calls, ffmpeg, whisper_loaded, failed_before,
                   ensure_calls, otherVars>>

\* Lines 516-600: one pass of the caption loop for a segment with text: the
\* text is measured, placed, built into layers and appended.
CaptionSegment ==
    /\ pc = "segments"
    /\ SegText(segments[seg_idx]) # <<>>
    /\ \E measure \in MeasuredSizes(caption_text_box(clip)) :
         LET a == caption_builder_args(args, clip, segments[seg_idx], measure)
             ls == make_styled_layers(a)
         IN  /\ builder_calls' =
                  Append(builder_calls,
                         [args |-> a, text |-> SegText(segments[seg_idx]),
                          seg |-> seg_idx, measure |-> measure, layers |-> ls])
             /\ final_clips' = append_layers(final_clips, ls)
    /\ seg_idx' = seg_idx + 1
    /\ pc' = AfterSegment
    /\ UNCHANGED <<args, video, clip, segments, audio_file, ret, calls,
                   ffmpeg, whisper_loaded, failed_before,
                   ensure_calls, otherVars>>

\* The text-rendering engine raises while a segment is measured or built.
CaptionSegmentFails ==
    /\ pc = "segments"
    /\ SegText(segments[seg_idx]) # <<>>
    /\ \E exc \in Exceptions : Return(FALSE, except_message(exc))
    /\ UNCHANGED <<args, video, clip, final_clips, segments, seg_idx,
                   audio_file, builder_calls, calls, ffmpeg, whisper_loaded,
                   failed_before,
                   ensure_calls, otherVars>>

\* Lines 606-678: the manual overlay, spanning the whole clip.
ManualOverlay ==
    /\ pc = "manual"
    /\ \E measure \in MeasuredSizes(manual_text_box(clip)) :
         LET a == manual_builder_args(args, clip, measure)
             ls == make_styled_layers(a)
         IN  /\ builder_calls' =
                  Append(builder_calls,
                         [args |-> a, text |-> args.text, seg |-> 0,
                          measure |-> measure, layers |-> ls])
             /\ final_clips' = append_layers(final_clips, ls)
    /\ pc' = "render"
    /\ UNCHANGED <<args, video, clip, segments, seg_idx, audio_file, ret,
                   calls, ffmpeg, whisper_loaded, failed_before,
                   ensure_calls, otherVars>>

ManualOverlayFails ==
    /\ pc = "manual"
    /\ \E exc \in Exceptions : Return(FALSE, except_message(exc))
    /\ UNCHANGED <<args, video, clip, final_clips, segments, seg_idx,
                   audio_file, builder_calls, calls, ffmpeg, whisper_loaded,
                   failed_before,
                   ensure_calls, otherVars>>

\* Lines 680-712: the composite is rendered, everything is closed.
Render ==
    /\ pc = "render"
    /\ calls' = Append(calls, "write_videofile")
    /\ Return(TRUE, "")
    /\ UNCHANGED <<args, video, clip, final_clips, segments, seg_idx,
                   audio_file, builder_calls, ffmpeg, whisper_loaded, failed_before,
                   ensure_calls, otherVars>>

\* Variant: a failed render is tried again instead of being reported.
RenderFailsRetry ==
    /\ pc = "render"
    /\ calls' = Append(calls, "write_videofile")
    /\ UNCHANGED <<pc, ret>>
    /\ UNCHANGED <<args, video, clip, final_clips, segments, seg_idx,
                   audio_file, builder_calls, ffmpeg, whisper_loaded,
                   failed_before, ensure_calls,
                   otherVars>>

RenderFails ==
    /\ pc = "render"
    /\ calls' = Append(calls, "write_videofile")
    /\ \E exc \in Exceptions : Return(FALSE, except_message(exc))
    /\ UNCHANGED <<args, video, clip, final_clips, segments, seg_idx,
                   audio_file, builder_calls, ffmpeg, whisper_loaded, failed_before,
                   ensure_calls, otherVars>>

\* Lines 849-878: the page shows the result; the call's locals are gone.
ShowResult ==
    /\ pc = "returned"
    /\ pc' = "idle" /\ args' = NoArgs /\ video' = NoVideo /\ clip' = NoClip
    /\ final_clips' = <<>> /\ segments' = <<>> /\ seg_idx' = 0
    /\ audio_file' = "none" /\ ret' = <<>>
    /\ builder_calls' = <<>> /\ calls' = <<>>
    /\ failed_before' = (failed_before \/ ~ret[1])
    /\ UNCHANGED <<ffmpeg, whisper_loaded, ensure_calls, otherVars>>

\* ---------------------------------------------------------- specifications
InitPlacement ==
    placement \in PlacementInputs /\ target = <<>> /\ IdleSlide /\ IdleLayers /\ IdleFont
      /\ IdleProc
NextPlacement == TargetXY
SpecPlacement == InitPlacement /\ [][NextPlacement]_vars

InitSlide ==
    /\ anim \in AnimInputs
    /\ pos_fn = <<>> /\ t_sample = <<0, 1>> /\ pos_val = <<>>
    /\ IdlePlacement /\ IdleLayers /\ IdleFont /\ IdleProc
NextSlide == SlideIn \/ SamplePos
SpecSlide == InitSlide /\ [][NextSlide]_vars

InitLayers ==
    /\ style \in StyleInputs
    /\ layers = <<>> /\ frame_t = <<0, 1>> /\ sampled = <<>>
    /\ IdlePlacement /\ IdleSlide /\ IdleFont /\ IdleProc
NextLayers == MakeStyledLayers \/ RenderFrame
SpecLayers == InitLayers /\ [][NextLayers]_vars

InitFont ==
    /\ font_req \in FontRequests
    /\ os_name \in {"nt", "posix"}
    /\ disk \in Disks
    /\ font_style = <<>>
    /\ IdlePlacement /\ IdleSlide /\ IdleLayers /\ IdleProc
NextFont == ResolveFontStyle
SpecFont == InitFont /\ [][NextFont]_vars

InitFfmpeg ==
    /\ ffmpeg \in FfmpegStates
    /\ ensure_calls = 0
    /\ IdleCall /\ whisper_loaded = FALSE /\ failed_before = FALSE
    /\ IdlePlacement /\ IdleSlide /\ IdleLayers /\ IdleFont
NextFfmpeg == EnsureFfmpegOnPath
SpecFfmpeg == InitFfmpeg /\ [][NextFfmpeg]_vars

\* process_video_clip, called again and again in one process.
Init == IdleProc /\ IdlePlacement /\ IdleSlide /\ IdleLayers /\ IdleFont
Next ==
    \/ Call \/ OpenClip \/ OpenFails
    \/ WriteAudio \/ WriteAudioFails
    \/ Transcribe \/ LoadModelFails \/ TranscribeFails
    \/ SkipSegment \/ CaptionSegment \/ CaptionSegmentFails
    \/ ManualOverlay \/ ManualOverlayFails
    \/ Render \/ RenderFails
    \/ ShowResult
Spec == Init /\ [][Next]_vars

\* =================================================================== claims
RatEq(p, x, y) == p.den > 0 /\ p.xn = x * p.den /\ p.yn = y * p.den

\* ----------------------------------------------------------------------- C1
\* C1: at every composited frame, every layer the builder returned (box,
\* shadow, main text) reports a position with x in [-layer_w+1, frame_w-1] and
\* y in [-layer_h+1, frame_h-1], whatever the shared position function gives.
C1_LayersOverlapFrame ==
    \A i \in 1..Len(sampled) :
        LET l == layers[i]
            p == sampled[i].pos
        IN  /\ p.den > 0
            /\ (-l.w + 1) * p.den <= p.xn /\ p.xn <= (style.base_w - 1) * p.den
            /\ (-l.h + 1) * p.den <= p.yn /\ p.yn <= (style.base_h - 1) * p.den

\* A frame with all three layers in which a layer's unclamped position is
\* wholly right of the frame and another layer's wholly left of it or above it.
C1_Witness ==
    /\ Len(sampled) = 3
    /\ \E i \in 1..3 : sampled[i].raw.xn >= style.base_w * sampled[i].raw.den
    /\ \E i \in 1..3 :
         sampled[i].raw.yn + layers[i].h * sampled[i].raw.den <= 0

\* ----------------------------------------------------------------------- C2
\* v is the truncation toward zero of n / 2.
IsTruncatedHalf(n, v) ==
    \/ 2 * v = n
    \/ n > 0 /\ 2 * v = n - 1
    \/ n < 0 /\ 2 * v = n + 1

\* v = max(margin, trunc((dimension - size) / 2))
IsCentered(v, margin, dimension, size) ==
    \E h \in {(dimension - size) \div 2, ((dimension - size) \div 2) + 1} :
        IsTruncatedHalf(dimension - size, h) /\ v = Max(margin, h)

\* v = max(margin, (dimension - size) / 2), the division being exact
IsCenteredExactly(v, margin, dimension, size) ==
    2 * v = Max(2 * margin, dimension - size)

\* C2 (as amended): _target_xy returns the per-placement formula, with
\* C(d,s) = max(margin, trunc((d - s) / 2)), trunc rounding toward zero.
C2_TargetFormulaTruncated ==
    target # <<>> =>
        LET a == placement
            x == target[1]
            y == target[2]
            far_x == Max(a.margin, a.video_w - a.text_w - a.margin)
            far_y == Max(a.margin, a.video_h - a.text_h - a.margin)
            cx == IsCentered(x, a.margin, a.video_w, a.text_w)
            cy == IsCentered(y, a.margin, a.video_h, a.text_h)
        IN  /\ a.position_sel = "bottom" => cx /\ y = far_y
            /\ a.position_sel = "top" => cx /\ y = a.margin
            /\ a.position_sel = "left" => x = a.margin /\ cy
            /\ a.position_sel = "right" => x = far_x /\ cy
            /\ a.position_sel = "center" => cx /\ cy
            /\ a = ExamplePlacement => target = <<760, 956>>

\* The example of the specification has been resolved.
C2_Witness == placement = ExamplePlacement /\ target = <<760, 956>>

\* C2 (as stated): the same with C(d,s) = max(margin, (d - s) / 2) exactly.
C2_TargetFormulaExact ==
    target # <<>> =>
        LET a == placement
            x == target[1]
            y == target[2]
            far_x == Max(a.margin, a.video_w - a.text_w - a.margin)
            far_y == Max(a.margin, a.video_h - a.text_h - a.margin)
            cx == IsCenteredExactly(x, a.margin, a.video_w, a.text_w)
            cy == IsCenteredExactly(y, a.margin, a.video_h, a.text_h)
        IN  /\ a.position_sel = "bottom" => cx /\ y = far_y
            /\ a.position_sel = "top" => cx /\ y = a.margin
            /\ a.position_sel = "left" => x = a.margin /\ cy
            /\ a.position_sel = "right" => x = far_x /\ cy
            /\ a.position_sel = "center" => cx /\ cy

\* ----------------------------------------------------------------------- C3
\* The closure sampled at 0, at d and at d/2 ticks gives the start point, the
\* target point and their midpoint.
SlideHitsEndsAndMidpoint(d) ==
    pos_val # <<>> =>
        LET p == pos_val[1]
            tn == t_sample[1]
            td == t_sample[2]
        IN  /\ tn = 0 => RatEq(p, anim.start_x, anim.start_y)
            /\ tn = d * td => RatEq(p, anim.target_x, anim.target_y)
            /\ 2 * tn = d * td =>
                 /\ p.den > 0
                 /\ 2 * p.xn = (anim.start_x + anim.target_x) * p.den
                 /\ 2 * p.yn = (anim.start_y + anim.target_y) * p.den

\* C3 (as amended): position(0) is the start, position(d) the target and
\* position(d/2) their exact midpoint, d being max(0.05 s, requested duration).
C3_SlideEndsAtFlooredDuration ==
    SlideHitsEndsAndMidpoint(Max(MinAnimDuration, anim.anim_duration))

\* A slide between two different points, sampled half-way through a duration
\* that is an odd number of ticks.
C3_Witness ==
    /\ pos_val # <<>>
    /\ anim.anim_duration > MinAnimDuration
    /\ anim.anim_duration % 2 = 1
    /\ 2 * t_sample[1] = anim.anim_duration * t_sample[2]
    /\ anim.start_x # anim.target_x
    /\ anim.start_y # anim.target_y

\* C3 (as stated): the same, d being the requested duration.
C3_SlideEndsAtRequestedDuration == SlideHitsEndsAndMidpoint(anim.anim_duration)

\* ----------------------------------------------------------------------- C4
InClampRange(p, w, h, frame_w, frame_h) ==
    /\ (-w + 1) * p.den <= p.xn /\ p.xn <= (frame_w - 1) * p.den
    /\ (-h + 1) * p.den <= p.yn /\ p.yn <= (frame_h - 1) * p.den

\* Pixels (times den) that [n/den, n/den + size) shares with [0, frame).
OverlapTimesDen(n, den, size, frame) ==
    Max(0, Min(n + size * den, frame * den) - Max(n, 0))

\* Along one axis: a layer wholly off the frame is moved to the nearer bound,
\* where exactly 1 pixel of it overlaps the frame.
OffscreenAxisMovedToEdge(raw_n, pos_n, den, size, frame) ==
    /\ raw_n + size * den <= 0 => pos_n = (-size + 1) * den
    /\ raw_n >= frame * den => pos_n = (frame - 1) * den
    /\ (raw_n + size * den <= 0 \/ raw_n >= frame * den) =>
         OverlapTimesDen(pos_n, den, size, frame) = den

\* C4: the clamp leaves a position that is in range unchanged, clamping a
\* clamped position changes nothing, and a layer wholly off the frame along
\* an axis is moved to the nearest bound of that axis, 1 pixel overlapping.
C4_ClampIdempotentMinimal ==
    \A i \in 1..Len(sampled) :
        LET l == layers[i]
            raw == sampled[i].raw
            p == sampled[i].pos
        IN  /\ InClampRange(raw, l.w, l.h, style.base_w, style.base_h) => p = raw
            /\ clamp_xy(p, l.w, l.h, style.base_w, style.base_h) = p
            /\ p.den = raw.den
            /\ OffscreenAxisMovedToEdge(raw.xn, p.xn, p.den, l.w, style.base_w)
            /\ OffscreenAxisMovedToEdge(raw.yn, p.yn, p.den, l.h, style.base_h)

\* A frame in which a layer wider than 1 pixel is wholly left of the frame
\* (and is moved), and a layer is in range at a negative x (and is not).
C4_Witness ==
    /\ \E i \in 1..Len(sampled) :
         /\ layers[i].w > 1
         /\ sampled[i].raw.xn + layers[i].w * sampled[i].raw.den <= 0
         /\ sampled[i].pos # sampled[i].raw
    /\ \E i \in 1..Len(sampled) :
         /\ sampled[i].raw.xn < 0
         /\ InClampRange(sampled[i].raw, layers[i].w, layers[i].h,
                         style.base_w, style.base_h)
         /\ sampled[i].pos = sampled[i].raw

\* ----------------------------------------------------------------------- C5
Kinds(ls) == [i \in 1..Len(ls) |-> ls[i].kind]
KindRank(kind) == CASE kind = "box" -> 1 [] kind = "shadow" -> 2 [] OTHER -> 3

\* ls is [box?, shadow?, main_text]: kinds in strictly rising rank, text last.
IsOrderedLayerList(ls) ==
    /\ ls # <<>>
    /\ ls[Len(ls)].kind = "text"
    /\ \A i \in 1..(Len(ls) - 1) : KindRank(ls[i].kind) < KindRank(ls[i + 1].kind)

RECURSIVE ReturnedLayers(_)
ReturnedLayers(history) ==
    IF history = <<>> THEN <<>>
    ELSE ReturnedLayers(SubSeq(history, 1, Len(history) - 1))
           \o history[Len(history)].layers

\* The composite list is the base clip, then every returned list in turn.
CompositeKeepsBuilderOrder ==
    final_clips # <<>> =>
        /\ final_clips[1] = clip
        /\ Tail(final_clips) = ReturnedLayers(builder_calls)

\* C5 (as amended): every list _make_styled_layers returns is [box?, shadow?,
\* main_text]; with box and shadow both enabled at an opacity above 0 it is
\* exactly [box, shadow, text]; process_video_clip appends the layers to the
\* composite list in that order, after the base clip.
C5_LayerOrderWhenVisible ==
    /\ \A k \in 1..Len(builder_calls) :
          LET a == builder_calls[k].args
              ls == builder_calls[k].layers
          IN  /\ IsOrderedLayerList(ls)
              /\ ( /\ a.box_enabled /\ a.box_opacity > 0
                   /\ a.shadow_enabled /\ a.shadow_opacity > 0 )
                 => Kinds(ls) = <<"box", "shadow", "text">>
    /\ CompositeKeepsBuilderOrder

\* Two caption segments built with box and shadow visible: the composite list
\* is the base clip and twice box, shadow, text.
C5_Witness ==
    /\ Len(builder_calls) = 2
    /\ Len(final_clips) = 7
    /\ Kinds(final_clips) =
         <<"base", "box", "shadow", "text", "box", "shadow", "text">>

\* C5 (as stated): the same, the list being exactly [box, shadow, text]
\* whenever box and shadow are both enabled.
C5_LayerOrderWhenEnabled ==
    /\ \A k \in 1..Len(builder_calls) :
          LET a == builder_calls[k].args
              ls == builder_calls[k].layers
          IN  /\ IsOrderedLayerList(ls)
              /\ (a.box_enabled /\ a.shadow_enabled)
                 => Kinds(ls) = <<"box", "shadow", "text">>
    /\ CompositeKeepsBuilderOrder

\* ----------------------------------------------------------------------- C6
HasLayer(ls, kind) == \E i \in 1..Len(ls) : ls[i].kind = kind

\* C6 (as amended): the returned list holds a box layer iff the box is enabled
\* and its opacity is above 0, and a shadow layer iff the shadow is enabled
\* and its opacity is above 0.
C6_OptionalLayersIffEnabledAndVisible ==
    layers # <<>> =>
        /\ HasLayer(layers, "box") <=>
             (style.box_enabled /\ style.box_opacity > 0)
        /\ HasLayer(layers, "shadow") <=>
             (style.shadow_enabled /\ style.shadow_opacity > 0)

\* A list built with the box enabled at opacity 0 and a visible shadow.
C6_Witness ==
    /\ layers # <<>>
    /\ style.box_enabled /\ style.box_opacity = 0
    /\ style.shadow_enabled /\ style.shadow_opacity > 0
    /\ HasLayer(layers, "shadow") /\ ~HasLayer(layers, "box")

\* C6 (as stated): a box layer iff the box is enabled, a shadow layer iff the
\* shadow is enabled, whatever the opacities.
C6_OptionalLayersIffEnabled ==
    layers # <<>> =>
        /\ HasLayer(layers, "box") <=> style.box_enabled
        /\ HasLayer(layers, "shadow") <=> style.shadow_enabled

\* ----------------------------------------------------------------------- C7
\* The text has a character that is not white space.
HasVisibleChar(text) ==
    text # NoneText /\ \E i \in 1..Len(text) : ~IsSpace(text[i])

\* The segments the caption loop has passed.
PassedSegments ==
    IF pc \in {"segments", "render", "returned"}
    THEN 1..(Min(seg_idx, Len(segments) + 1) - 1)
    ELSE {}

\* The target point captured by a position argument of the builder.
TargetOf(pos) ==
    IF pos.kind = "fixed" THEN <<pos.x, pos.y>> ELSE <<pos.target_x, pos.target_y>>

\* The point is where _target_xy places a text of the measured size in the
\* clip, with the default margin.
IsPlacedAt(point, position_sel, measure) ==
    LET x == point[1]
        y == point[2]
        far_x == Max(DefaultMargin, clip.w - measure[1] - DefaultMargin)
        far_y == Max(DefaultMargin, clip.h - measure[2] - DefaultMargin)
        cx == IsCentered(x, DefaultMargin, clip.w, measure[1])
        cy == IsCentered(y, DefaultMargin, clip.h, measure[2])
    IN  /\ position_sel = "bottom" => cx /\ y = far_y
        /\ position_sel = "top" => cx /\ y = DefaultMargin
        /\ position_sel = "left" => x = DefaultMargin /\ cy
        /\ position_sel = "right" => x = far_x /\ cy
        /\ position_sel = "center" => cx /\ cy

\* C7: in caption mode the builder has been invoked exactly once for every
\* passed segment whose text has a visible character, in segment order, and
\* never for another; each invocation carries the segment's start, and the
\* placement resolved from that segment's own measured text size.
C7_OneBuilderCallPerSpokenSegment ==
    args.use_captions =>
        /\ Len(builder_calls) =
             Cardinality({i \in PassedSegments : HasVisibleChar(segments[i].text)})
        /\ \A k \in 1..Len(builder_calls) :
              LET b == builder_calls[k]
              IN  /\ b.seg \in PassedSegments
                  /\ HasVisibleChar(segments[b.seg].text)
                  /\ b.args.start = segments[b.seg].start
                  /\ b.measure \in MeasuredSizes(caption_text_box(clip))
                  /\ IsPlacedAt(TargetOf(b.args.pos), args.position_sel,
                                b.measure)
        /\ \A k \in 1..(Len(builder_calls) - 1) :
              builder_calls[k].seg < builder_calls[k + 1].seg

\* The example: three spoken segments at (0.0,1.2), (1.2,3.0), (3.0,4.5) were
\* rendered after exactly 3 invocations, not all with the same measured size.
C7_Witness ==
    /\ pc = "returned" /\ ret = <<TRUE, "">>
    /\ args.use_captions
    /\ Len(segments) = 3
    /\ \A i \in 1..3 : HasVisibleChar(segments[i].text)
    /\ <<segments[1].start, segments[1].end>> = <<0, 120>>
    /\ <<segments[2].start, segments[2].end>> = <<120, 300>>
    /\ <<segments[3].start, segments[3].end>> = <<300, 450>>
    /\ Len(builder_calls) = 3
    /\ builder_calls[1].measure # builder_calls[2].measure
    /\ TargetOf(builder_calls[1].args.pos) # TargetOf(builder_calls[2].args.pos)

\* ----------------------------------------------------------------------- C8
BundledCandidates ==
    IF Join("", BundledDir) \in disk
    THEN LET names == desired(font_req.font_key, font_req.bold, font_req.italic)
         IN  [i \in 1..Len(names) |-> Join(BundledDir, names[i])]
    ELSE <<>>

WindowsCandidate ==
    Join(WindowsFonts,
         font_filename(font_req.font_key, font_req.bold, font_req.italic))

\* r is the first path of cands that exists, or the empty string if none does.
IsFirstExisting(r, cands) ==
    /\ r = EmptyPath <=> \A i \in 1..Len(cands) : cands[i] \notin disk
    /\ r # EmptyPath =>
         \E i \in 1..Len(cands) :
            /\ cands[i] = r
            /\ r \in disk
            /\ \A j \in 1..(i - 1) : cands[j] \notin disk

\* C8 (as amended): with no uploaded font, off Windows the result is the first
\* existing candidate in the order bundled directory names, system font list,
\* and the empty string when none exists; on Windows it is the table's file in
\* C:\Windows\Fonts when that exists and else the family's regular file name.
C8_FirstExistingOffWindows ==
    (font_style # <<>> /\ font_req.custom_font_path = EmptyPath) =>
        LET r == font_style[1]
        IN  /\ os_name # "nt" =>
                 IsFirstExisting(r, BundledCandidates
                                      \o linux_candidates(font_req.font_key))
            /\ os_name = "nt" =>
                 r = IF WindowsCandidate \in disk THEN WindowsCandidate
                     ELSE Join("", variants(font_req.font_key).regular)
            /\ ( /\ os_name # "nt"
                 /\ font_req.font_key = "Arial"
                 /\ font_req.bold /\ ~font_req.italic
                 /\ Join(BundledDir, "arialbd.ttf") \in disk
                 /\ Join(BundledDir, "Arial Bold.ttf") \in disk )
               => r = Join(BundledDir, "arialbd.ttf")

\* Bold Arial resolved off Windows with both bundled bold files present.
C8_Witness ==
    /\ font_style = <<Join(BundledDir, "arialbd.ttf")>>
    /\ font_req.custom_font_path = EmptyPath
    /\ os_name = "posix"
    /\ font_req.font_key = "Arial" /\ font_req.bold /\ ~font_req.italic
    /\ Join(BundledDir, "arialbd.ttf") \in disk
    /\ Join(BundledDir, "Arial Bold.ttf") \in disk

\* C8 (as stated): on every platform the result is the first existing
\* candidate in the order platform table file, bundled directory names,
\* system font list, and the empty string when none exists.
C8_FirstExistingEveryPlatform ==
    (font_style # <<>> /\ font_req.custom_font_path = EmptyPath) =>
        IsFirstExisting(font_style[1],
                        (IF os_name = "nt" THEN <<WindowsCandidate>> ELSE <<>>)
                          \o BundledCandidates
                          \o linux_candidates(font_req.font_key))

\* ----------------------------------------------------------------------- C9
\* C9: when an uploaded font path is supplied the result is exactly that
\* path, whatever the family, the flags, the platform and the files on disk.
C9_UploadedFontWins ==
    (font_style # <<>> /\ font_req.custom_font_path # EmptyPath) =>
        font_style[1] = font_req.custom_font_path

\* An uploaded font with bold and italic asked for, on Windows, the family's
\* own file being present.
C9_Witness ==
    /\ font_style = <<UploadedFont>>
    /\ font_req.bold /\ font_req.italic
    /\ os_name = "nt"
    /\ WindowsCandidate \in disk

\* ---------------------------------------------------------------------- C10
\* C10: once the video has opened, a caption run on a video with no audio
\* track returns (False, "No audio track found to generate captions.") and a
\* manual run with empty or missing text returns (False, "Overlay text is
\* empty."), in both cases with no audio extracted, nothing transcribed, no
\* layer built and no render; a caption run never reports the empty text.
C10_InputChecksReturnEarly ==
    (pc = "returned" /\ clip # NoClip) =>
        /\ (args.use_captions /\ ~video.audio) =>
              /\ ret = <<FALSE, NoAudioMessage>>
              /\ calls = <<"VideoFileClip">>
              /\ audio_file = "none"
              /\ builder_calls = <<>>
              /\ final_clips = <<clip>>
        /\ (~args.use_captions /\ (args.text = NoneText \/ Len(args.text) = 0)) =>
              /\ ret = <<FALSE, EmptyTextMessage>>
              /\ calls = <<"VideoFileClip">>
              /\ builder_calls = <<>>
              /\ final_clips = <<clip>>
        /\ args.use_captions => ret[2] # EmptyTextMessage
        /\ (args.use_captions /\ video.audio) =>
              /\ Len(calls) >= 2
              /\ calls[2] = "write_audiofile"

\* A caption run with no overlay text on a video without audio has returned.
C10_Witness ==
    /\ pc = "returned"
    /\ args.use_captions /\ ~video.audio /\ args.text = NoneText
    /\ ret = <<FALSE, NoAudioMessage>>

\* ---------------------------------------------------------------------- C11
\* How many times the collaborator was invoked by the running call.
TimesCalled(name) == Cardinality({i \in 1..Len(calls) : calls[i] = name})

Collaborators == {"VideoFileClip", "write_audiofile", "transcribe", "write_videofile"}

FailureMessages ==
    {NoAudioMessage, EmptyTextMessage} \cup {except_message(exc) : exc \in Exceptions}

\* C11: process_video_clip is always either not running, at one of its steps,
\* or returned with (True, "") or (False, message), so no failure of a
\* collaborator leaves it anywhere else; (True, "") is returned only right
\* after the one render call; no collaborator, the render included, is
\* invoked more than once per invocation; and a call that starts after a
\* failed one starts from the same call state as the first.
C11_FailuresReturnedNoRetry ==
    /\ pc \in {"idle", "start", "write_audio", "transcribe", "segments",
                "manual", "render", "returned"}
    /\ pc = "returned" <=> ret # <<>>
    /\ pc = "returned" =>
          /\ ret[1] \in BOOLEAN
          /\ ret[1] => ( /\ ret[2] = ""
                         /\ calls # <<>>
                         /\ calls[Len(calls)] = "write_videofile" )
          /\ ~ret[1] => ret[2] \in FailureMessages
    /\ \A name \in Collaborators : TimesCalled(name) <= 1
    /\ \A i \in 1..Len(calls) :
          calls[i] = "write_videofile" => i = Len(calls) /\ pc = "returned"
    /\ pc = "idle" => IdleCall
    /\ pc = "start" =>
          /\ clip = NoClip /\ final_clips = <<>> /\ segments = <<>>
          /\ audio_file = "none" /\ builder_calls = <<>> /\ calls = <<>>

\* After an invocation of this process failed, a caption run has transcribed,
\* built layers and returned (True, "").
C11_Witness ==
    /\ failed_before
    /\ pc = "returned" /\ ret = <<TRUE, "">>
    /\ args.use_captions
    /\ builder_calls # <<>>
    /\ TimesCalled("write_videofile") = 1

\* ---------------------------------------------------------------------- C12
\* clamp(tn / (td * d), 0, 1) as the fraction <<numerator, denominator>>.
ClampedProgress(tn, td, d) ==
    IF tn <= 0 THEN <<0, 1>>
    ELSE IF tn >= d * td THEN <<1, 1>>
    ELSE <<tn, td * d>>

\* The coordinate n/den lies between a and b, ends included.
IsBetween(n, den, a, b) == Min(a, b) * den <= n /\ n <= Max(a, b) * den

\* C12: at every sampled t the closure returns
\* start + (target - start) * clamp(t / d, 0, 1), d = max(0.05 s, requested
\* duration): the start for t <= 0, the target for t >= d, and in between a
\* point between the two on both axes.
C12_SlideIsClampedInterpolation ==
    pos_val # <<>> =>
        LET q == pos_val[1]
            tn == t_sample[1]
            td == t_sample[2]
            d == Max(MinAnimDuration, anim.anim_duration)
            c == ClampedProgress(tn, td, d)
        IN  /\ q.den > 0
            /\ q.xn * c[2] =
                 (anim.start_x * c[2] + (anim.target_x - anim.start_x) * c[1]) * q.den
            /\ q.yn * c[2] =
                 (anim.start_y * c[2] + (anim.target_y - anim.start_y) * c[1]) * q.den
            /\ tn <= 0 => RatEq(q, anim.start_x, anim.start_y)
            /\ tn >= d * td => RatEq(q, anim.target_x, anim.target_y)
            /\ IsBetween(q.xn, q.den, anim.start_x, anim.target_x)
            /\ IsBetween(q.yn, q.den, anim.start_y, anim.target_y)
            /\ anim.anim_duration < MinAnimDuration =>
                 pos_fn[1] = slide_in_position_fn(anim.start_x, anim.start_y,
                                                  anim.target_x, anim.target_y,
                                                  MinAnimDuration)

\* A slide asked to last less than 0.05 s, sampled after the requested
\* duration and before 0.05 s: still strictly between start and target.
C12_Witness ==
    /\ pos_val # <<>>
    /\ anim.anim_duration >= 0
    /\ anim.anim_duration < MinAnimDuration
    /\ t_sample[1] > anim.anim_duration * t_sample[2]
    /\ t_sample[1] < MinAnimDuration * t_sample[2]
    /\ anim.start_x < anim.target_x
    /\ anim.start_y > anim.target_y
    /\ anim.start_x * pos_val[1].den < pos_val[1].xn
    /\ pos_val[1].xn < anim.target_x * pos_val[1].den

\* ---------------------------------------------------------------------- C13
\* The slide-in closure f keeps the target's coordinate across the direction
\* of travel.
KeepsCrossAxis(f, animate_from) ==
    IF animate_from \in {"left", "right"} THEN f.start_y = f.target_y
    ELSE f.start_x = f.target_x

\* Pixels of the measured block at f's start point that lie inside the frame
\* along the direction of travel.
StartOverlap(f, animate_from, measure) ==
    CASE animate_from = "top" -> Max(0, Min(f.start_y + measure[2], clip.h) - Max(f.start_y, 0))
      [] animate_from = "left" -> Max(0, Min(f.start_x + measure[1], clip.w) - Max(f.start_x, 0))
      [] animate_from = "right" -> Max(0, Min(f.start_x + measure[1], clip.w) - Max(f.start_x, 0))
      [] OTHER -> Max(0, Min(f.start_y + measure[2], clip.h) - Max(f.start_y, 0))

\* The block at f's start point sticks out of the frame over the origin edge.
StartsOverOriginEdge(f, animate_from, measure) ==
    CASE animate_from = "top" -> f.start_y <= 0
      [] animate_from = "left" -> f.start_x <= 0
      [] animate_from = "right" -> f.start_x + measure[1] >= clip.w
      [] OTHER -> f.start_y + measure[2] >= clip.h

\* Every animated builder call got a slide-in closure whose start point keeps
\* the target's cross-axis coordinate and leaves `inside` pixels of the
\* measured block in the frame at the origin edge; others got a fixed point.
AnimationStartsAt(inside) ==
    \A k \in 1..Len(builder_calls) :
        LET b == builder_calls[k]
            f == b.args.pos
        IN  IF args.animate_in
            THEN /\ f.kind = "slide"
                 /\ IsPlacedAt(<<f.target_x, f.target_y>>, args.position_sel,
                               b.measure)
                 /\ KeepsCrossAxis(f, args.animate_from)
                 /\ StartsOverOriginEdge(f, args.animate_from, b.measure)
                 /\ StartOverlap(f, args.animate_from, b.measure) = inside
            ELSE f.kind = "fixed"

\* C13 (as amended): with animation enabled, in manual and in caption mode,
\* the start point keeps the target's cross-axis coordinate and, on the
\* animation axis, puts the measured text block over the origin edge with
\* exactly 1 pixel of it left inside the frame.
C13_StartOnePixelInside == AnimationStartsAt(AnimEdge)

\* A caption run sliding in from the left built two segments of different
\* measured sizes, so from two different start points.
C13_Witness ==
    /\ args.use_captions /\ args.animate_in /\ args.animate_from = "left"
    /\ Len(builder_calls) = 2
    /\ builder_calls[1].args.pos.start_x # builder_calls[2].args.pos.start_x
    /\ builder_calls[1].args.pos.start_y = builder_calls[1].args.pos.target_y

\* C13 (as stated): the same, the text block at the start point being wholly
\* outside the frame.
C13_StartOutsideFrame == AnimationStartsAt(0)

\* ---------------------------------------------------------------------- C14
\* Every layer of every builder call starts at the segment's start (0 for the
\* manual overlay) and lasts Duration(e), e being the segment's end - start
\* (the rendered clip's duration for the manual overlay).
LayersTimedBy(Duration(_)) ==
    \A k \in 1..Len(builder_calls) :
        LET b == builder_calls[k]
            start == IF args.use_captions THEN segments[b.seg].start ELSE 0
            extent == IF args.use_captions
                      THEN segments[b.seg].end - segments[b.seg].start
                      ELSE clip.duration
        IN  /\ b.layers # <<>>
            /\ \A i \in 1..Len(b.layers) :
                  /\ b.layers[i].start = start
                  /\ b.layers[i].duration = Duration(extent)

FlooredDuration(e) == Max(MinLayerDuration, e)
SameDuration(e) == e

\* C14 (as amended): box, shadow and main text of one overlay segment share
\* the segment's start and the duration max(0.05 s, segment's duration); in
\* caption mode these are the segment's start and max(0.05 s, end - start), in
\* manual mode 0 and max(0.05 s, the rendered clip's duration).
C14_LayersShareFlooredTiming == LayersTimedBy(FlooredDuration)

\* A caption segment of 0.03 s starting at 0.1 s was built into box, shadow
\* and text.
C14_Witness ==
    /\ args.use_captions
    /\ Len(builder_calls) = 1
    /\ segments[1].end - segments[1].start < MinLayerDuration
    /\ Len(builder_calls[1].layers) = 3
    /\ builder_calls[1].layers[1].start = 10
    /\ builder_calls[1].layers[3].duration = MinLayerDuration

\* C14 (as stated): the same, the duration being exactly end - start.
C14_LayersShareSegmentTiming == LayersTimedBy(SameDuration)

\* ---------------------------------------------------------------------- C15
\* The coordinate n/den brought into [lo, hi], as a numerator over den.
ClampedTo(n, den, lo, hi) == Min(Max(n, lo * den), hi * den)

\* p is the point (x + dx, y + dy), (x, y) being the shared position, clamped
\* for a layer of size w by h.
IsClampedOffset(p, shared, dx, dy, w, h) ==
    /\ p.den = shared.den
    /\ p.xn = ClampedTo(shared.xn + dx * shared.den, shared.den,
                        -w + 1, style.base_w - 1)
    /\ p.yn = ClampedTo(shared.yn + dy * shared.den, shared.den,
                        -h + 1, style.base_h - 1)

\* C15: at every frame time t, (x, y) being the shared position function's
\* value at t, the main text is at clamp(x, y) with the text size, the shadow
\* at clamp(x + dx, y + dy) with the text size, and the box at
\* clamp(x - padding, y - padding) with the box size, which is the text size
\* plus 2 * padding on each axis; padding is the box padding, 0 or more as
\* the page passes it (a negative one counts as 0).
C15_LayersOffsetThenClamped ==
    \A i \in 1..Len(sampled) :
        LET l == layers[i]
            shared == as_pos_fn(style.pos, frame_t[1], frame_t[2])
            padding == Max(0, style.box_padding)
            text_w == style.text_box_w
            text_h == style.text_box_h
        IN  /\ l.kind = "text" =>
                 /\ l.w = text_w /\ l.h = text_h
                 /\ IsClampedOffset(sampled[i].pos, shared, 0, 0, text_w, text_h)
            /\ l.kind = "shadow" =>
                 /\ l.w = text_w /\ l.h = text_h
                 /\ IsClampedOffset(sampled[i].pos, shared, style.shadow_dx,
                                    style.shadow_dy, text_w, text_h)
            /\ l.kind = "box" =>
                 /\ l.w = text_w + 2 * padding /\ l.h = text_h + 2 * padding
                 /\ IsClampedOffset(sampled[i].pos, shared, -padding, -padding,
                                    text_w + 2 * padding, text_h + 2 * padding)

\* A frame half-way through a slide with a padded box, a shadow and the text:
\* the shadow is moved by the clamp, the text is not, and the three positions
\* differ.
C15_Witness ==
    /\ Len(sampled) = 3
    /\ style.pos.kind = "slide"
    /\ frame_t = <<5, 2>>
    /\ style.box_padding > 0
    /\ sampled[2].pos # sampled[2].raw
    /\ sampled[3].pos = sampled[3].raw
    /\ sampled[3].pos.den > 1
    /\ sampled[1].pos # sampled[2].pos
    /\ sampled[2].pos # sampled[3].pos

\* ---------------------------------------------------------------------- C16
\* C16: sampling the position functions of the built layers (over a fixed
\* point or a slide-in function, for box, shadow and text) changes nothing
\* they captured; whatever was sampled before, each value is the one the
\* function built from the same arguments gives at that time, and sampling
\* the time of the last frame again gives the same values again.
C16_PositionFunctionsPure ==
    [][layers # <<>> =>
         /\ layers' = layers
         /\ style' = style
         /\ Len(sampled') = Len(layers)
         /\ \A i \in 1..Len(sampled') :
               sampled'[i] = layer_pos(make_styled_layers(style)[i],
                                       frame_t'[1], frame_t'[2])
         /\ (sampled # <<>> /\ frame_t' = frame_t) => sampled' = sampled]_vars

\* Box, shadow and text over a slide-in function, sampled at its start while
\* the slide is still away from its target.
C16_Witness ==
    /\ Len(sampled) = 3
    /\ style.pos.kind = "slide"
    /\ frame_t = <<0, 1>>
    /\ sampled[3].raw.xn = style.pos.start_x * sampled[3].raw.den
    /\ sampled[3].raw.yn = style.pos.start_y * sampled[3].raw.den
    /\ <<style.pos.start_x, style.pos.start_y>> #
         <<style.pos.target_x, style.pos.target_y>>

\* ---------------------------------------------------------------------- C17
\* C17: when process_video_clip has returned from a caption run that created
\* the temporary audio file, the file has been removed, whichever way the run
\* went after the file's creation.
C17_TempAudioRemovedOnReturn ==
    (pc = "returned" /\ audio_file # "none") => audio_file = "removed"

\* ---------------------------------------------------------------------- C18
\* What holds of the shim after any number of calls.
CopiedAndPrependedOnce ==
    /\ ffmpeg.copies <= 1
    /\ ffmpeg.prepends <= 1
    /\ ffmpeg.copies = 1 => (ffmpeg.shim /\ ffmpeg.exe = "exists")
    /\ ffmpeg.prepends = 1 => ffmpeg.on_path
    /\ ensure_calls >= 1 => ensure_ffmpeg_on_path(ffmpeg) = ffmpeg
    /\ (ensure_calls >= 1 /\ ffmpeg.exe = "exists" /\ ffmpeg.dir = "writable") =>
          (ffmpeg.shim /\ ffmpeg.on_path)

\* C18: however often _ensure_ffmpeg_on_path is called, and whatever raises
\* inside it, every call returns; at most one copy of the bundled binary is
\* ever made and at most one PATH entry added; a call copies only while the
\* shim file does not exist and the bundled binary does, and prepends only
\* while PATH lacks the shim directory; after the first call, a further call
\* changes nothing.
C18_EnsureIdempotent ==
    [][/\ CopiedAndPrependedOnce'
       /\ ensure_calls' = ensure_calls + 1
       /\ (ffmpeg.shim \/ ffmpeg.exe # "exists") =>
             ffmpeg'.copies = ffmpeg.copies
       /\ ffmpeg.on_path => ffmpeg'.prepends = ffmpeg.prepends
       /\ ensure_calls >= 1 => ffmpeg' = ffmpeg]_vars

\* Three calls on a fresh, writable environment: one copy, one PATH entry.
C18_Witness ==
    /\ ensure_calls = 3
    /\ ffmpeg.copies = 1
    /\ ffmpeg.prepends = 1

\* ---------------------------------------------------------------------- C19
\* C19: with animation enabled, a caption segment's slide lasts as
\* _slide_in_position_fn makes a slide of min(requested duration, segment
\* duration) last, the segment duration being seg_duration; it is no longer
\* than the segment's layers last, and every layer's shared position is the
\* resolved target at elapsed time equal to that duration.  A manual
\* overlay's slide lasts as one of the requested duration does, however
\* short the clip.
C19_CaptionSlideCappedBySegment ==
    args.animate_in =>
        \A k \in 1..Len(builder_calls) :
            LET b == builder_calls[k]
                f == b.args.pos
                requested == args.animate_duration
            IN  IF args.use_captions
                THEN LET segment_duration ==
                             Max(MinSegDuration,
                                 segments[b.seg].end - segments[b.seg].start)
                     IN  /\ f.anim_duration =
                              Max(MinAnimDuration,
                                  Min(requested, segment_duration))
                         /\ f.anim_duration <= segment_duration
                         /\ \A i \in 1..Len(b.layers) :
                               /\ b.layers[i].duration = segment_duration
                               /\ RatEq(as_pos_fn(b.layers[i].pos,
                                                  segment_duration, 1),
                                        f.target_x, f.target_y)
                ELSE f.anim_duration = Max(MinAnimDuration, requested)

\* A slide of 1.4 s was asked for and two caption segments of 1.2 s and 1.8 s
\* were built: the first slide lasts 1.2 s, the second 1.4 s.
C19_Witness ==
    /\ args.use_captions /\ args.animate_in
    /\ args.animate_duration = 140
    /\ Len(builder_calls) = 2
    /\ builder_calls[1].args.pos.anim_duration = 120
    /\ builder_calls[2].args.pos.anim_duration = 140
    /\ builder_calls[1].args.pos.start_y # builder_calls[1].args.pos.target_y

====
